---- MODULE Spec2Model ----
(***************************************************************************)
(* A model of src/bot.py: the recurring channel-post scheduler.  The state *)
(* is the application's in-memory user_data, the job queue (armed timers), *)
(* the post_to_channel executions in flight, and the persisted user_data   *)
(* collection.  Update handlers run one at a time; a post_to_channel        *)
(* execution yields at each await, so handlers and other executions may    *)
(* run between its steps.                                                  *)
(***************************************************************************)
EXTENDS Integers, Sequences, FiniteSets, Bags, TLC

VARIABLES
    user_data,   \* application.user_data: user id -> dict
    jobs,        \* job queue: the bag of armed timers
    cycles,      \* bag of post_to_channel executions in flight
    store,       \* user_data collection of the database: _id -> pickled dict
    dirty,       \* user ids marked for the next persistence update
    running,     \* the application is processing updates and timers
    cancelled,   \* (tenant, channel) removed while armed and idle, not upserted since
    overtaken,   \* (tenant, channel) removed while an execution was in flight, not upserted since
    stopped,     \* (tenant, channel) with a fire cycle that ended in permanent failure, not upserted since
    calc,        \* the delay computation on its own: its inputs and its result
    last         \* what the last step did

vars == <<user_data, jobs, cycles, store, dirty, running, cancelled, overtaken, stopped, calc, last>>

-----------------------------------------------------------------------------
(* Bounds of the model and the inputs the actions draw from.               *)

\* armed timers plus executions in flight never exceed this
MaxJobs == 2

\* largest base interval and largest jitter (seconds) of the delay computation
MaxBase == 70
MaxJitter == 20

Users == {7}
\* a private chat has the id of its user; -5 is a group chat the user writes in
PrivateChat == {7}
TwoChats == {7, -5}
ChannelA == <<"@", "a">>
ChannelB == <<"@", "b">>
\* a text that starts with '@' and has a second '@'
ChannelAtA == <<"@", "@", "a">>
\* a text that is no channel name
NoChannel == <<"a">>
Topics == {"space", "news"}
\* texts typed for the cadence: a number of hundredths of an hour, or no number
Number(n) == [numeric |-> TRUE, value |-> n]
NotANumber == [numeric |-> FALSE, value |-> 0]
NumberTexts == {NotANumber, Number(-1), Number(1)}
\* float('nan'), which float() parses from the text "nan": a value apart from
\* every number of the model
NaN == -100000
\* the cadence texts with zero and "nan" among them
CadenceTexts == {NotANumber, Number(-1), Number(0), Number(NaN), Number(1)}
MemberStatuses == {"administrator_can_post", "member", "error"}
\* outcomes of bot.send_message: delivered, or a raised TelegramError
\* (BadRequest and Forbidden are permanent, NetworkError/TimedOut transient)
SendOutcomes == {"ok", "BadRequest", "NetworkError"}
GenOutcomes == {"text", "exception"}

-----------------------------------------------------------------------------
(* Program constants.                                                      *)

WarmUp == 10
MinDelay == 60
SecondsPerHundredth == 36

\* the names bound by the module's import statements
ImportedNames == {"os", "logging", "random", "asyncio", "pickle", "defaultdict", "load_dotenv", "MongoClient", "Update", "InlineKeyboardButton", "InlineKeyboardMarkup", "Application", "CommandHandler", "ConversationHandler", "MessageHandler", "filters", "ContextTypes", "CallbackQueryHandler", "BasePersistence", "TelegramError", "BadRequest", "ChatMemberStatus", "genai"}

-----------------------------------------------------------------------------
(* Python dicts as functions.                                              *)

EmptyDict == [k \in {} |-> 0]
Has(d, k) == k \in DOMAIN d
Put(d, k, v) == [x \in (DOMAIN d) \cup {k} |-> IF x = k THEN v ELSE d[x]]
Del(d, k) == [x \in (DOMAIN d) \ {k} |-> d[x]]

\* context.user_data.get('channels', {})
ChannelsOf(d) == IF Has(d, "channels") THEN d["channels"] ELSE EmptyDict

-----------------------------------------------------------------------------
(* Strings as sequences of characters.                                     *)

Digit(n) == CASE n = 0 -> "0" [] n = 1 -> "1" [] n = 2 -> "2" [] n = 3 -> "3" [] n = 4 -> "4" [] n = 5 -> "5" [] n = 6 -> "6" [] n = 7 -> "7" [] n = 8 -> "8" [] n = 9 -> "9"

RECURSIVE NatStr(_)
NatStr(n) == IF n < 10 THEN <<Digit(n)>> ELSE NatStr(n \div 10) \o <<Digit(n % 10)>>

\* str(chat_id) inside an f-string
IntStr(n) == IF n < 0 THEN <<"-">> \o NatStr(-n) ELSE NatStr(n)

\* s.replace('@', '')
RECURSIVE StripAt(_)
StripAt(s) == IF s = <<>> THEN <<>> ELSE (IF Head(s) = "@" THEN <<>> ELSE <<Head(s)>>) \o StripAt(Tail(s))

\* f"post_job_{chat_id}_{channel_id.replace('@', '')}"
job_name(chat_id, channel_id) == <<"post_job_">> \o IntStr(chat_id) \o <<"_">> \o StripAt(channel_id)

\* channel_name.startswith('@')
StartsWithAt(s) == Len(s) > 0 /\ s[1] = "@"

-----------------------------------------------------------------------------
(* Numbers typed by the user.                                              *)

\* float(text) raises ValueError on a text that is no number
IsNumber(text) == text.numeric

\* float comparison and arithmetic: a comparison with nan is false, a sum with
\* nan is nan
Less(a, b) == a # NaN /\ b # NaN /\ a < b
LessEq(a, b) == a # NaN /\ b # NaN /\ a <= b
Plus(a, b) == IF a = NaN \/ b = NaN THEN NaN ELSE a + b

\* hours * 3600, the text counting hundredths of an hour
ToSeconds(text) == IF text.value = NaN THEN NaN ELSE text.value * SecondsPerHundredth

-----------------------------------------------------------------------------
(* The job queue.                                                          *)

\* `tenant` is not a field of the program's job: it records whose schedule armed it
NoJob == [name |-> <<>>, data |-> EmptyDict, chat_id |-> 0, user_id |-> "None", when |-> 0, tenant |-> 0]

\* job_queue.get_jobs_by_name(name)
get_jobs_by_name(q, name) == {j \in DOMAIN q : j.name = name}

\* job_queue.run_once(post_to_channel, when=..., data=..., name=..., chat_id=...)
run_once(q, when, data, name, chat_id, tenant) == q (+) SetToBag({[name |-> name, data |-> data, chat_id |-> chat_id, user_id |-> "None", when |-> when, tenant |-> tenant]})

\* remove_job_if_exists: every job of that name is removed from the queue
remove_job_if_exists(q, name) == [j \in (DOMAIN q) \ get_jobs_by_name(q, name) |-> q[j]]

job_data(channel_id, topic, base_seconds, random_seconds) == [channel_id |-> channel_id, topic |-> topic, base_seconds |-> base_seconds, random_seconds |-> random_seconds]

schedule_first_job_for_channel(q, chat_id, channel_id, topic, base_seconds, random_seconds, tenant) == run_once(remove_job_if_exists(q, job_name(chat_id, channel_id)), WarmUp, job_data(channel_id, topic, base_seconds, random_seconds), job_name(chat_id, channel_id), chat_id, tenant)

\* max(a, b) keeps a unless b > a
Max(a, b) == IF Less(a, b) THEN b ELSE a

\* the delay without the floor of 60 seconds
next_run_time_unfloored(base_seconds, sample) == base_seconds + sample

\* next_run_time = max(60, base_seconds + random.uniform(-random_seconds, random_seconds))
next_run_time(base_seconds, sample) == Max(MinDelay, Plus(base_seconds, sample))

\* the values random.uniform(-r, r) is sampled at
Samples(r) == IF r = NaN THEN {NaN} ELSE {-r, 0, r}

-----------------------------------------------------------------------------
(* Content generation.                                                     *)

Returned(text) == [raised |-> FALSE, text |-> text]
Raised == [raised |-> TRUE, text |-> <<>>]

Fallback(topic) == <<"Sorry, I couldn't generate a post about", topic>>

\* a generator without the except clause: the exception of the model call leaves it
generate_ai_content_unguarded(topic, outcome) == IF topic = "" THEN Returned(<<"Error: Topic is empty.">>) ELSE IF outcome = "text" THEN Returned(<<"ai", topic>>) ELSE Raised

\* generate_ai_content: the model's text, or the fallback text when the call to
\* the model raises; the function itself never raises
generate_ai_content(topic, outcome) == IF topic = "" THEN Returned(<<"Error: Topic is empty.">>) ELSE IF outcome = "text" THEN Returned(<<"ai", topic>>) ELSE Returned(Fallback(topic))

-----------------------------------------------------------------------------
(* The persistence class.                                                  *)

\* pickle.dumps / pickle.loads
Dumps(data) == [pickled |-> data]
Loads(bytes) == bytes.pickled

\* an update_user_data without the delete on empty data
update_user_data_upsert_only(st, user_id, data) == Put(st, user_id, Dumps(data))

\* MongoPersistence.update_user_data: delete on empty data, else upsert
update_user_data(st, user_id, data) == IF data = EmptyDict THEN Del(st, user_id) ELSE Put(st, user_id, Dumps(data))

\* MongoPersistence.get_user_data: every record with a truthy key and value
get_user_data(st) == [u \in {k \in DOMAIN st : k # 0} |-> Loads(st[u])]

\* MongoPersistence.drop_user_data: delete_one({'_id': user_id})
drop_user_data(st, user_id) == Del(st, user_id)

\* application.user_data is a defaultdict(dict) over the loaded documents
LoadUserData(st) == [u \in Users |-> IF Has(get_user_data(st), u) THEN get_user_data(st)[u] ELSE EmptyDict]

-----------------------------------------------------------------------------
Event(op, user, channel) == [op |-> op, user |-> user, channel |-> channel, job |-> NoJob, gen |-> "", out |-> "", text |-> <<>>, notified |-> 0]

Step == Event("step", 0, <<>>)

NoCalc == [base_seconds |-> 0, random_seconds |-> 0, computed |-> FALSE, next_run_time |-> 0]

Init ==
    /\ user_data = [u \in Users |-> EmptyDict]
    /\ jobs = EmptyBag
    /\ cycles = EmptyBag
    /\ store = EmptyDict
    /\ dirty = {}
    /\ running = TRUE
    /\ cancelled = {}
    /\ overtaken = {}
    /\ stopped = {}
    /\ calc = NoCalc
    /\ last = Step

-----------------------------------------------------------------------------
(* The dialogs.  ConversationHandler keeps one dialog per (chat, user) but  *)
(* the temp_ keys live in the user's user_data, so a user writing in        *)
(* several chats (or using /cancel) can reach each step with any of them    *)
(* present or absent: the steps are enabled in any order.                   *)

\* every handled update marks its user for the next persistence update
Handled(u) == running /\ dirty' = dirty \cup {u} /\ UNCHANGED calc

add_channel_receive_name(u, text, member) ==
    /\ user_data' = IF StartsWithAt(text) /\ member = "administrator_can_post" THEN [user_data EXCEPT ![u] = Put(@, "temp_channel_name", text)] ELSE user_data
    /\ Handled(u)
    /\ last' = Step
    /\ UNCHANGED <<jobs, cycles, store, running, cancelled, overtaken, stopped>>

add_channel_receive_topic(u, text) ==
    /\ user_data' = [user_data EXCEPT ![u] = Put(@, "temp_channel_topic", text)]
    /\ Handled(u)
    /\ last' = Step
    /\ UNCHANGED <<jobs, cycles, store, running, cancelled, overtaken, stopped>>

add_channel_receive_schedule_base(u, text) ==
    /\ user_data' = IF IsNumber(text) /\ ~LessEq(text.value, 0) THEN [user_data EXCEPT ![u] = Put(@, "temp_base_seconds", ToSeconds(text))] ELSE user_data
    /\ Handled(u)
    /\ last' = Step
    /\ UNCHANGED <<jobs, cycles, store, running, cancelled, overtaken, stopped>>

\* the three pops of add_channel_receive_schedule_random: a missing key raises
\* KeyError after the earlier keys were popped
AddPops(d) == IF ~Has(d, "temp_channel_name") THEN d ELSE IF ~Has(d, "temp_channel_topic") THEN Del(d, "temp_channel_name") ELSE IF ~Has(d, "temp_base_seconds") THEN Del(Del(d, "temp_channel_name"), "temp_channel_topic") ELSE Del(Del(Del(d, "temp_channel_name"), "temp_channel_topic"), "temp_base_seconds")

AddComplete(d) == Has(d, "temp_channel_name") /\ Has(d, "temp_channel_topic") /\ Has(d, "temp_base_seconds")

\* context.user_data['channels'][channel_id] = {...}, creating 'channels' first
SetRecord(d, channel_id, config) == Put(d, "channels", Put(ChannelsOf(d), channel_id, config))

Config(topic, base_seconds, random_seconds) == [topic |-> topic, base_seconds |-> base_seconds, random_seconds |-> random_seconds]

add_channel_receive_schedule_random(u, chat_id, text) ==
    /\ Handled(u)
    /\ IF ~IsNumber(text) \/ Less(text.value, 0)
       THEN /\ last' = Step
            /\ UNCHANGED <<user_data, jobs, cycles, store, running, cancelled, overtaken, stopped>>
       ELSE IF ~AddComplete(user_data[u])
       THEN /\ user_data' = [user_data EXCEPT ![u] = AddPops(@)]
            /\ last' = Step
            /\ UNCHANGED <<jobs, cycles, store, running, cancelled, overtaken, stopped>>
       ELSE LET d == user_data[u]
                channel_id == d["temp_channel_name"]
                topic == d["temp_channel_topic"]
                base_seconds == d["temp_base_seconds"]
                random_seconds == ToSeconds(text)
            IN  /\ user_data' = [user_data EXCEPT ![u] = SetRecord(AddPops(d), channel_id, Config(topic, base_seconds, random_seconds))]
                /\ jobs' = schedule_first_job_for_channel(jobs, chat_id, channel_id, topic, base_seconds, random_seconds, u)
                /\ BagCardinality(jobs') + BagCardinality(cycles) <= MaxJobs
                /\ cancelled' = cancelled \ {<<u, channel_id>>}
                /\ overtaken' = overtaken \ {<<u, channel_id>>}
                /\ stopped' = stopped \ {<<u, channel_id>>}
                /\ last' = Step
                /\ UNCHANGED <<cycles, store, running>>

\* the schedule of (tenant, channel) has an execution in flight
InFlight(u, channel_id) == \E c \in DOMAIN cycles : c.job.tenant = u /\ c.job.data.channel_id = channel_id

\* the schedule of (tenant, channel) has an armed timer
Armed(u, channel_id) == \E j \in DOMAIN jobs : j.tenant = u /\ j.data.channel_id = channel_id

HasRecord(u, channel_id) == Has(ChannelsOf(user_data[u]), channel_id)

\* del context.user_data['channels'][channel_id]
DelRecord(d, channel_id) == Put(d, "channels", Del(d["channels"], channel_id))

remove_channel_callback(u, chat_id, data, answered) ==
    /\ Handled(u)
    /\ IF ~answered
       THEN /\ last' = Step
            /\ UNCHANGED <<user_data, jobs, cycles, store, running, cancelled, overtaken, stopped>>
       ELSE /\ jobs' = remove_job_if_exists(jobs, job_name(chat_id, data))
            /\ user_data' = IF HasRecord(u, data) THEN [user_data EXCEPT ![u] = DelRecord(@, data)] ELSE user_data
            /\ cancelled' = IF Armed(u, data) /\ ~InFlight(u, data) THEN cancelled \cup {<<u, data>>} ELSE cancelled
            /\ overtaken' = IF InFlight(u, data) THEN overtaken \cup {<<u, data>>} ELSE overtaken
            /\ last' = Step
            /\ UNCHANGED <<cycles, store, running, stopped>>

edittopic_choose_channel_callback(u, data, answered) ==
    /\ user_data' = IF answered THEN [user_data EXCEPT ![u] = Put(@, "temp_channel_to_edit", data)] ELSE user_data
    /\ Handled(u)
    /\ last' = Step
    /\ UNCHANGED <<jobs, cycles, store, running, cancelled, overtaken, stopped>>

edittopic_receive_topic(u, chat_id, new_topic) ==
    /\ Handled(u)
    /\ IF ~Has(user_data[u], "temp_channel_to_edit")
       THEN /\ last' = Step
            /\ UNCHANGED <<user_data, jobs, cycles, store, running, cancelled, overtaken, stopped>>
       ELSE LET channel_id == user_data[u]["temp_channel_to_edit"]
                d == Del(user_data[u], "temp_channel_to_edit")
            IN  IF ~Has(d, "channels") \/ ~Has(d["channels"], channel_id)
                THEN /\ user_data' = [user_data EXCEPT ![u] = d]
                     /\ last' = Step
                     /\ UNCHANGED <<jobs, cycles, store, running, cancelled, overtaken, stopped>>
                ELSE LET config == d["channels"][channel_id]
                     IN  /\ user_data' = [user_data EXCEPT ![u] = SetRecord(d, channel_id, [config EXCEPT !.topic = new_topic])]
                         /\ jobs' = schedule_first_job_for_channel(jobs, chat_id, channel_id, new_topic, config.base_seconds, config.random_seconds, u)
                         /\ BagCardinality(jobs') + BagCardinality(cycles) <= MaxJobs
                         /\ cancelled' = cancelled \ {<<u, channel_id>>}
                         /\ overtaken' = overtaken \ {<<u, channel_id>>}
                         /\ stopped' = stopped \ {<<u, channel_id>>}
                         /\ last' = Step
                         /\ UNCHANGED <<cycles, store, running>>

TempKeys == {"temp_channel_name", "temp_channel_topic", "temp_base_seconds", "temp_channel_to_edit"}

cancel(u) ==
    /\ user_data' = [user_data EXCEPT ![u] = [k \in (DOMAIN @) \ TempKeys |-> @[k]]]
    /\ Handled(u)
    /\ last' = Step
    /\ UNCHANGED <<jobs, cycles, store, running, cancelled, overtaken, stopped>>

-----------------------------------------------------------------------------
(* The timer callback post_to_channel, one action per await.               *)

Execution(j) == [job |-> j, pc |-> "generate", gen |-> "", content |-> <<>>, out |-> ""]

\* the scheduler takes a due run_once job off the queue and starts its callback
Fire(j) ==
    /\ running
    /\ j \in DOMAIN jobs
    /\ jobs' = jobs (-) SetToBag({j})
    /\ cycles' = cycles (+) SetToBag({Execution(j)})
    /\ last' = Step
    /\ UNCHANGED <<user_data, store, dirty, cancelled, overtaken, stopped, calc, running>>

CycleEnd(op, c, out, notified) == [Event(op, c.job.tenant, c.job.data.channel_id) EXCEPT !.job = c.job, !.gen = c.gen, !.out = out, !.text = c.content, !.notified = notified]

\* content = await generate_ai_content(topic); an exception leaving it would
\* end the callback there
Generate(c, outcome) ==
    /\ running
    /\ c \in DOMAIN cycles
    /\ c.pc = "generate"
    /\ LET r == generate_ai_content(c.job.data.topic, outcome)
       IN  IF r.raised
           THEN /\ cycles' = cycles (-) SetToBag({c})
                /\ last' = CycleEnd("died", [c EXCEPT !.gen = outcome], "", 0)
           ELSE /\ cycles' = (cycles (-) SetToBag({c})) (+) SetToBag({[c EXCEPT !.pc = "send", !.gen = outcome, !.content = r.text]})
                /\ last' = Step
    /\ UNCHANGED <<user_data, jobs, store, dirty, cancelled, overtaken, stopped, calc, running>>

\* the channel itself rejects the post (BadRequest, Forbidden): a permanent failure
Permanent(outcome) == outcome = "BadRequest"

\* the except clause of post_to_channel: TelegramError and every subclass of it
Caught(outcome) == outcome \in {"BadRequest", "NetworkError"}

\* a re-arm that leaves out chat_id=chat_id
rearm_without_chat(q, job, sample) == run_once(q, next_run_time(job.data.base_seconds, sample), job.data, job.name, 0, job.tenant)

\* the re-arm at the end of a delivered post
rearm(q, job, sample) == run_once(q, next_run_time(job.data.base_seconds, sample), job.data, job.name, job.chat_id, job.tenant)

\* await context.bot.send_message(chat_id=channel_id, text=content), then either
\* the re-arm or the first statement of the except clause
Send(c, outcome, sample) ==
    /\ running
    /\ c \in DOMAIN cycles
    /\ c.pc = "send"
    /\ IF Caught(outcome)
       THEN /\ jobs' = remove_job_if_exists(jobs, c.job.name)
            /\ cycles' = (cycles (-) SetToBag({c})) (+) SetToBag({[c EXCEPT !.pc = "notify", !.out = outcome]})
            /\ last' = Step
       ELSE /\ jobs' = rearm(jobs, c.job, sample)
            /\ cycles' = cycles (-) SetToBag({c})
            /\ last' = CycleEnd("rearmed", c, outcome, 0)
    /\ UNCHANGED <<user_data, store, dirty, cancelled, overtaken, stopped, calc, running>>

\* context.user_data inside a job callback: the job was armed with a chat_id and
\* no user_id, so the context has no user and user_data is None
JobHasUserData(job) == job.user_id # "None"

\* lines 194-195: context.user_data.get('channels', {}) raises AttributeError on
\* None, and otherwise the record of the channel is deleted
failure_cleanup(ud, job) == IF ~JobHasUserData(job) THEN ud ELSE [ud EXCEPT ![job.user_id] = IF Has(ChannelsOf(@), job.data.channel_id) THEN DelRecord(@, job.data.channel_id) ELSE @]

\* the notification to the tenant's chat, then the cleanup; a notification that
\* raises ends the callback before the cleanup
Notify(c, delivered) ==
    /\ running
    /\ c \in DOMAIN cycles
    /\ c.pc = "notify"
    /\ cycles' = cycles (-) SetToBag({c})
    /\ user_data' = IF delivered THEN failure_cleanup(user_data, c.job) ELSE user_data
    /\ stopped' = IF Permanent(c.out) THEN stopped \cup {<<c.job.tenant, c.job.data.channel_id>>} ELSE stopped
    /\ last' = CycleEnd("failed", c, c.out, IF delivered THEN 1 ELSE 0)
    /\ UNCHANGED <<jobs, store, dirty, cancelled, overtaken, calc, running>>

-----------------------------------------------------------------------------
(* Persistence and restart.                                                *)

RECURSIVE FlushAll(_, _, _)
FlushAll(st, ids, ud) == IF ids = {} THEN st ELSE LET u == CHOOSE x \in ids : TRUE IN FlushAll(update_user_data(st, u, ud[u]), ids \ {u}, ud)

\* Application.update_persistence: every marked user's dict is written
update_persistence ==
    /\ running
    /\ dirty # {}
    /\ store' = FlushAll(store, dirty, user_data)
    /\ dirty' = {}
    /\ last' = Step
    /\ UNCHANGED <<user_data, jobs, cycles, cancelled, overtaken, stopped, calc, running>>

\* the (user, channel) pairs post_init iterates over
RecordKeys(ud) == UNION {{<<u, ch>> : ch \in DOMAIN ChannelsOf(ud[u])} : u \in DOMAIN ud}

RECURSIVE RescheduleAll(_, _, _)
RescheduleAll(q, ud, keys) == IF keys = {} THEN q ELSE LET k == CHOOSE x \in keys : TRUE IN LET config == ud[k[1]]["channels"][k[2]] IN RescheduleAll(schedule_first_job_for_channel(q, k[1], k[2], config.topic, config.base_seconds, config.random_seconds, k[1]), ud, keys \ {k})

\* the first statement of post_init reads the global name `copy`
PostInitRaises == "copy" \notin ImportedNames

\* post_init: NameError before the loop, or one schedule_first_job_for_channel per record
post_init(q, ud) == IF PostInitRaises THEN q ELSE RescheduleAll(q, ud, RecordKeys(ud))

\* the process ends and starts again: the job queue and the executions in flight
\* are gone, user_data is loaded from the database, and run_polling awaits
\* post_init before it polls; an exception of post_init ends run_polling.  A
\* graceful stop writes the marked users first.
Restart(graceful) ==
    /\ store' = IF graceful /\ running THEN FlushAll(store, dirty, user_data) ELSE store
    /\ user_data' = LoadUserData(store')
    /\ jobs' = post_init(EmptyBag, user_data')
    /\ cycles' = EmptyBag
    /\ dirty' = {}
    /\ running' = ~PostInitRaises
    /\ cancelled' = {}
    /\ overtaken' = {}
    /\ stopped' = stopped
    /\ last' = Event("restart", 0, <<>>)
    /\ UNCHANGED calc

\* post_init run again on the live application
RerunPostInit ==
    /\ running
    /\ jobs' = post_init(jobs, user_data)
    /\ last' = Event("post_init", 0, <<>>)
    /\ UNCHANGED <<user_data, cycles, store, dirty, cancelled, overtaken, stopped, calc, running>>

-----------------------------------------------------------------------------
(* The next-state relation over the chats, channel names, topics and       *)
(* numbers the updates are drawn from.                                     *)
NextIn(chats, channels, topics, numbers) ==
    \/ \E u \in Users, text \in channels \cup {NoChannel}, member \in MemberStatuses : add_channel_receive_name(u, text, member)
    \/ \E u \in Users, text \in topics : add_channel_receive_topic(u, text)
    \/ \E u \in Users, text \in numbers : add_channel_receive_schedule_base(u, text)
    \/ \E u \in Users, chat_id \in chats, text \in numbers : add_channel_receive_schedule_random(u, chat_id, text)
    \/ \E u \in Users, chat_id \in chats, data \in channels, answered \in BOOLEAN : remove_channel_callback(u, chat_id, data, answered)
    \/ \E u \in Users, data \in channels, answered \in BOOLEAN : edittopic_choose_channel_callback(u, data, answered)
    \/ \E u \in Users, chat_id \in chats, text \in topics : edittopic_receive_topic(u, chat_id, text)
    \/ \E u \in Users : cancel(u)
    \/ \E j \in DOMAIN jobs : Fire(j)
    \/ \E c \in DOMAIN cycles, outcome \in GenOutcomes : Generate(c, outcome)
    \/ \E c \in DOMAIN cycles, outcome \in SendOutcomes : \E sample \in Samples(c.job.data.random_seconds) : Send(c, outcome, sample)
    \/ \E c \in DOMAIN cycles, delivered \in BOOLEAN : Notify(c, delivered)
    \/ \E graceful \in BOOLEAN : Restart(graceful)

\* one user in the private chat, one channel, two topics
Next == NextIn(PrivateChat, {ChannelA}, Topics, NumberTexts)

Spec == Init /\ [][Next]_vars

\* the user writes in the private chat and in a group chat
NextChats == NextIn(TwoChats, {ChannelA}, {"space"}, NumberTexts)

SpecChats == Init /\ [][NextChats]_vars

\* two channels of one user
NextChannels == NextIn(PrivateChat, {ChannelA, ChannelB}, {"space"}, NumberTexts)

SpecChannels == Init /\ [][NextChannels]_vars

\* post_init run a second time as well
NextRecovery == NextIn(PrivateChat, {ChannelA}, {"space"}, NumberTexts) \/ RerunPostInit

SpecRecovery == Init /\ [][NextRecovery]_vars

\* the add dialog with every kind of cadence text, and the timers it arms
NextCadence ==
    \/ \E u \in Users, member \in MemberStatuses : add_channel_receive_name(u, ChannelA, member)
    \/ \E u \in Users : add_channel_receive_topic(u, "space")
    \/ \E u \in Users, text \in CadenceTexts : add_channel_receive_schedule_base(u, text)
    \/ \E u \in Users, chat_id \in PrivateChat, text \in CadenceTexts : add_channel_receive_schedule_random(u, chat_id, text)
    \/ \E u \in Users : cancel(u)
    \/ \E j \in DOMAIN jobs : Fire(j)
    \/ \E c \in DOMAIN cycles, outcome \in GenOutcomes : Generate(c, outcome)
    \/ \E c \in DOMAIN cycles, outcome \in SendOutcomes : \E sample \in Samples(c.job.data.random_seconds) : Send(c, outcome, sample)
    \/ \E c \in DOMAIN cycles, delivered \in BOOLEAN : Notify(c, delivered)

SpecCadence == Init /\ [][NextCadence]_vars

\* two channels of one user, added in the private chat, and their timers
NextPair ==
    \/ \E u \in Users, text \in {ChannelA, ChannelB} : add_channel_receive_name(u, text, "administrator_can_post")
    \/ \E u \in Users : add_channel_receive_topic(u, "space")
    \/ \E u \in Users : add_channel_receive_schedule_base(u, Number(1))
    \/ \E u \in Users, chat_id \in PrivateChat : add_channel_receive_schedule_random(u, chat_id, Number(1))
    \/ \E j \in DOMAIN jobs : Fire(j)
    \/ \E c \in DOMAIN cycles, outcome \in GenOutcomes : Generate(c, outcome)
    \/ \E c \in DOMAIN cycles, outcome \in SendOutcomes : \E sample \in Samples(c.job.data.random_seconds) : Send(c, outcome, sample)
    \/ \E c \in DOMAIN cycles, delivered \in BOOLEAN : Notify(c, delivered)

SpecPair == Init /\ [][NextPair]_vars

\* two channel names that differ in an '@' only, added in the private chat
NextNames ==
    \/ \E u \in Users, text \in {ChannelA, ChannelAtA} : add_channel_receive_name(u, text, "administrator_can_post")
    \/ \E u \in Users : add_channel_receive_topic(u, "space")
    \/ \E u \in Users : add_channel_receive_schedule_base(u, Number(1))
    \/ \E u \in Users, chat_id \in PrivateChat : add_channel_receive_schedule_random(u, chat_id, Number(1))
    \/ \E j \in DOMAIN jobs : Fire(j)
    \/ \E c \in DOMAIN cycles, outcome \in GenOutcomes : Generate(c, outcome)
    \/ \E c \in DOMAIN cycles, outcome \in SendOutcomes : \E sample \in Samples(c.job.data.random_seconds) : Send(c, outcome, sample)
    \/ \E c \in DOMAIN cycles, delivered \in BOOLEAN : Notify(c, delivered)

SpecNames == Init /\ [][NextNames]_vars

-----------------------------------------------------------------------------
(* The persistence class on its own: the application writes the documents  *)
(* of three users and drops them, in any order.                            *)

\* Telegram user ids
TenantIds == {7, 8, 9}

StoredRecord == [topic |-> "space", base_seconds |-> 36, random_seconds |-> 36]

\* user_data dicts handed to update_user_data; the empty one asks for a delete
Documents == {EmptyDict,
              [temp_channel_topic |-> "space"],
              [channels |-> EmptyDict],
              [channels |-> (ChannelA :> StoredRecord)],
              [channels |-> (ChannelA :> StoredRecord @@ ChannelB :> [StoredRecord EXCEPT !.topic = "news"])]}

UpdateUserData(user_id, data) ==
    /\ store' = update_user_data(store, user_id, data)
    /\ last' = Event("update_user_data", user_id, <<>>)
    /\ UNCHANGED <<user_data, jobs, cycles, dirty, running, cancelled, overtaken, stopped, calc>>

DropUserData(user_id) ==
    /\ store' = drop_user_data(store, user_id)
    /\ last' = Event("drop_user_data", user_id, <<>>)
    /\ UNCHANGED <<user_data, jobs, cycles, dirty, running, cancelled, overtaken, stopped, calc>>

NextStore ==
    \/ \E user_id \in TenantIds, data \in Documents : UpdateUserData(user_id, data)
    \/ \E user_id \in TenantIds : DropUserData(user_id)

SpecStore == Init /\ [][NextStore]_vars

-----------------------------------------------------------------------------
(* The delay computation of post_to_channel on its own: a cadence the add   *)
(* dialog accepts (base > 0, jitter >= 0) and a draw of random.uniform.     *)

InitDelay ==
    /\ user_data = [u \in Users |-> EmptyDict]
    /\ jobs = EmptyBag
    /\ cycles = EmptyBag
    /\ store = EmptyDict
    /\ dirty = {}
    /\ running = TRUE
    /\ cancelled = {}
    /\ overtaken = {}
    /\ stopped = {}
    /\ last = Step
    /\ \E b \in 1..MaxBase, r \in 0..MaxJitter : calc = [base_seconds |-> b, random_seconds |-> r, computed |-> FALSE, next_run_time |-> 0]

ComputeDelay(sample) ==
    /\ ~calc.computed
    /\ calc' = [calc EXCEPT !.computed = TRUE, !.next_run_time = next_run_time(calc.base_seconds, sample)]
    /\ UNCHANGED <<user_data, jobs, cycles, store, dirty, running, cancelled, overtaken, stopped, last>>

NextDelay == \E sample \in (-calc.random_seconds)..calc.random_seconds : ComputeDelay(sample)

SpecDelay == InitDelay /\ [][NextDelay]_vars

-----------------------------------------------------------------------------
(* The claims.                                                             *)

\* the number of armed timers of a job name
JobsNamed(name) == BagCardinality([j \in get_jobs_by_name(jobs, name) |-> jobs[j]])

\* every channel name of the model
AllChannels == {ChannelA, ChannelB}

\* C1: in every reachable state at most one timer is armed under a job key,
\* whatever the interleaving of add, edit, remove, fire cycles and recovery.
C1_AtMostOneTimerPerKey == \A j \in DOMAIN jobs : JobsNamed(j.name) <= 1

\* C2: while the application runs, a (tenant, channel) pair has a record in the
\* tenant's channels map if and only if a timer of the pair is armed or a fire
\* cycle of the pair is executing.
C2_RecordIffTimer == running => \A u \in Users, ch \in AllChannels : HasRecord(u, ch) <=> (Armed(u, ch) \/ InFlight(u, ch))

\* C3: a remove issued while the key's fire cycle is in flight suppresses the
\* re-arm: once the cycle has ended the key has no record and no armed timer.
C3_RemoveInFlightSuppressesRearm == \A k \in overtaken : ~InFlight(k[1], k[2]) => (~Armed(k[1], k[2]) /\ ~HasRecord(k[1], k[2]))

\* C4: a fire cycle that ended in a permanent delivery failure leaves no record
\* of its key, no timer under its key, and has emitted exactly one notification.
C4_PermanentFailureTearsDown == (last.op = "failed" /\ last.out = "BadRequest") => (~HasRecord(last.user, last.channel) /\ JobsNamed(last.job.name) = 0 /\ last.notified = 1)

\* the delays a re-arm of this cadence may use
ValidDelay(d, base_seconds, random_seconds) == d >= MinDelay /\ d >= base_seconds - random_seconds /\ d <= Max(MinDelay, base_seconds + random_seconds)

\* C5: a fire cycle whose delivery failed with a transient transport error
\* ends with the record present, a timer armed under the same key with a valid
\* computed delay, and no notification emitted.
C5_TransientFailureRearms == (last.op \in {"failed", "rearmed", "died"} /\ last.out = "NetworkError") => (HasRecord(last.user, last.channel) /\ last.notified = 0 /\ \E j \in DOMAIN jobs : j.name = last.job.name /\ ValidDelay(j.when, last.job.data.base_seconds, last.job.data.random_seconds))

\* the step ends an execution whose content generation failed and whose
\* delivery succeeded
GenFailedDelivered == last'.op \in {"rearmed", "failed", "died"} /\ last'.gen = "exception" /\ last'.out \notin {"BadRequest", "NetworkError"} /\ (cycles' # cycles \/ jobs' # jobs)

\* C6: a content generator failure is absorbed.  No execution ends at the
\* generation step; an execution whose generation failed sends the fallback
\* text; and when that delivery succeeds the step is the success path: the
\* execution ends without the failure branch, user_data is unchanged, and one
\* timer with the same name, data and chat id is added with a computed delay.
C6_GeneratorFailureAbsorbed ==
    /\ [](last.op # "died")
    /\ [](\A c \in DOMAIN cycles : (c.gen = "exception" /\ c.pc # "generate") => c.content = Fallback(c.job.data.topic))
    /\ [][GenFailedDelivered => (/\ last'.op = "rearmed"
                                 /\ last'.text = Fallback(last'.job.data.topic)
                                 /\ last'.notified = 0
                                 /\ user_data' = user_data
                                 /\ \E c \in DOMAIN cycles : /\ c.pc = "send" /\ c.job = last'.job /\ c.content = last'.text
                                                             /\ cycles' = cycles (-) SetToBag({c})
                                 /\ \E d \in MinDelay..(MinDelay + last'.job.data.base_seconds + last'.job.data.random_seconds) :
                                        /\ ValidDelay(d, last'.job.data.base_seconds, last'.job.data.random_seconds)
                                        /\ jobs' = jobs (+) SetToBag({[last'.job EXCEPT !.when = d]}))]_vars

\* C6 witness: an execution whose generation failed has delivered the fallback
\* text and re-armed its timer
C6_Witness == last.op = "rearmed" /\ last.gen = "exception" /\ last.text = Fallback(last.job.data.topic) /\ JobsNamed(last.job.name) >= 1

\* C7 as stated: the computed delay lies in [max(60, base - jitter), base + jitter]
C7_DelayInStatedInterval == calc.computed => (calc.next_run_time >= Max(MinDelay, calc.base_seconds - calc.random_seconds) /\ calc.next_run_time <= calc.base_seconds + calc.random_seconds)

\* C7 amended: the computed delay lies in
\* [max(60, base - jitter), max(60, base + jitter)]; it is never below 60
C7_DelayInClampedInterval == calc.computed => (calc.next_run_time >= Max(MinDelay, calc.base_seconds - calc.random_seconds) /\ calc.next_run_time <= Max(MinDelay, calc.base_seconds + calc.random_seconds) /\ calc.next_run_time >= MinDelay)

\* C7 witness: the floor decides the delay of a cadence whose base + jitter is
\* below it
C7_Witness == calc.computed /\ calc.base_seconds + calc.random_seconds < MinDelay /\ calc.random_seconds > 0 /\ calc.next_run_time = MinDelay

\* the timers recovery is to arm for the records of user_data: one per record,
\* named by its user and channel, with the record's data and the warm-up delay
RECURSIVE RecoveryJobs(_, _)
RecoveryJobs(ud, keys) == IF keys = {} THEN EmptyBag ELSE LET k == CHOOSE x \in keys : TRUE IN LET config == ud[k[1]]["channels"][k[2]] IN RecoveryJobs(ud, keys \ {k}) (+) SetToBag({[name |-> job_name(k[1], k[2]), data |-> job_data(k[2], config.topic, config.base_seconds, config.random_seconds), chat_id |-> k[1], user_id |-> "None", when |-> WarmUp, tenant |-> k[1]]})

\* C8: after a restart the armed timers are exactly one per record of the
\* persisted store, with the record's topic and cadence and the warm-up delay.
C8_RecoveryArmsEveryRecord == last.op = "restart" => jobs = RecoveryJobs(get_user_data(store), RecordKeys(get_user_data(store)))

\* every record has an armed timer and nothing is in flight
AllArmed == cycles = EmptyBag /\ RecordKeys(user_data) # {} /\ \A k \in RecordKeys(user_data) : Armed(k[1], k[2])

\* C9: post_init run again while the jobs are armed leaves what one recovery
\* leaves: one timer per record, with the record's data and the warm-up delay.
C9_RecoveryIdempotent == (last.op = "post_init" /\ AllArmed) => jobs = RecoveryJobs(user_data, RecordKeys(user_data))

\* C10: after the remove of a channel whose timer was armed and not firing, no
\* delivery attempt is made for the channel until it is upserted again.
C10_NoDeliveryAfterRemove == \A c \in DOMAIN cycles : <<c.job.tenant, c.job.data.channel_id>> \notin cancelled

\* the timers of the schedule of (tenant, channel), and their number
TimersOf(q, u, channel_id) == {j \in DOMAIN q : j.tenant = u /\ j.data.channel_id = channel_id}

NumTimers(q, u, channel_id) == BagCardinality([j \in TimersOf(q, u, channel_id) |-> q[j]])

\* the step is an upsert of (tenant, channel): the last step of the add dialog
\* or the topic edit, from any chat of the user
Upserts(u, channel_id) ==
    \/ \E chat_id \in TwoChats, text \in NumberTexts : /\ IsNumber(text) /\ text.value >= 0
                                                       /\ AddComplete(user_data[u])
                                                       /\ user_data[u]["temp_channel_name"] = channel_id
                                                       /\ add_channel_receive_schedule_random(u, chat_id, text)
    \/ \E chat_id \in TwoChats, new_topic \in Topics : /\ Has(user_data[u], "temp_channel_to_edit")
                                                       /\ user_data[u]["temp_channel_to_edit"] = channel_id
                                                       /\ HasRecord(u, channel_id)
                                                       /\ edittopic_receive_topic(u, chat_id, new_topic)

\* the job data the record of (tenant, channel) asks for
RecordData(ud, u, channel_id) == job_data(channel_id, ud[u]["channels"][channel_id].topic, ud[u]["channels"][channel_id].base_seconds, ud[u]["channels"][channel_id].random_seconds)

\* C11: an upsert of a (tenant, channel) whose timer from an earlier upsert is
\* armed and idle leaves exactly one armed timer for the pair; that timer is the
\* new one (warm-up delay) and its job data is the stored record, latest topic
\* included, so the earlier timer is gone and never fires.
C11_SecondUpsertReplacesTimer == [][\A u \in Users, ch \in AllChannels : (Upserts(u, ch) /\ NumTimers(jobs, u, ch) = 1 /\ ~InFlight(u, ch)) => (NumTimers(jobs', u, ch) = 1 /\ \A j \in TimersOf(jobs', u, ch) : j.when = WarmUp /\ j.data = RecordData(user_data', u, ch))]_vars

\* the topic of the record of (tenant, channel)
RecordTopic(u, channel_id) == user_data[u]["channels"][channel_id].topic

\* C12: when a fire cycle whose key was edited while it was in flight (the
\* record's topic is no longer the topic the execution posts) has completed and
\* re-armed, every timer armed for the key carries the edited topic, so no
\* later post uses the old one.
C12_EditInFlightTakesEffect == (last.op = "rearmed" /\ HasRecord(last.user, last.channel) /\ last.job.data.topic # RecordTopic(last.user, last.channel)) => \A j \in TimersOf(jobs, last.user, last.channel) : j.data.topic = RecordTopic(last.user, last.channel)

\* the executions in flight of a job name
CyclesNamed(name) == BagCardinality([c \in {x \in DOMAIN cycles : x.job.name = name} |-> cycles[c]])

\* C13: at no time are two fire cycles of one job key in progress together.
C13_CyclesOfAKeySequential == \A c \in DOMAIN cycles : CyclesNamed(c.job.name) <= 1

\* the step is the delivery attempt of the execution c: its send_message call
DeliveryAttempt(c) == \E outcome \in SendOutcomes, sample \in Samples(c.job.data.random_seconds) : Send(c, outcome, sample)

\* C14: once a fire cycle of a (tenant, channel) has failed permanently, no
\* delivery attempt is made for the pair until it is upserted again, restarts
\* included.
C14_PermanentFailureNotRetried == [][\A c \in DOMAIN cycles : DeliveryAttempt(c) => <<c.job.tenant, c.job.data.channel_id>> \notin stopped]_vars

\* the scheduler and the event loop are fair to timers and to executions: a due
\* timer is run and an awaited call returns or raises.  Updates and restarts
\* come from outside and are under no obligation.
NextLive == NextIn(PrivateChat, {ChannelA}, {"space"}, NumberTexts)

Fairness ==
    /\ WF_vars(\E j \in DOMAIN jobs : Fire(j))
    /\ WF_vars(\E c \in DOMAIN cycles, outcome \in GenOutcomes : Generate(c, outcome))
    /\ WF_vars(\E c \in DOMAIN cycles, outcome \in SendOutcomes : \E sample \in Samples(c.job.data.random_seconds) : Send(c, outcome, sample))
    /\ WF_vars(\E c \in DOMAIN cycles, delivered \in BOOLEAN : Notify(c, delivered))

SpecLive == Init /\ [][NextLive]_vars /\ Fairness

\* C15: a schedule stays alive: while its record exists and no cycle of it has
\* ended in permanent failure, a fire cycle of its key comes again (or the
\* record is removed, or a cycle fails permanently).
C15_SchedulesStayAlive == \A u \in Users, ch \in {ChannelA} : (HasRecord(u, ch) /\ <<u, ch>> \notin stopped) ~> (InFlight(u, ch) \/ ~HasRecord(u, ch) \/ <<u, ch>> \in stopped)

\* a remove of (tenant, channel) from the chat would change nothing here: the
\* pair has no record and no timer is armed under the name the call cancels
RemoveIsNoOp(q, ud, u, chat_id, data) == ~Has(ChannelsOf(ud[u]), data) /\ get_jobs_by_name(q, job_name(chat_id, data)) = {} /\ remove_job_if_exists(q, job_name(chat_id, data)) = q

\* C16: remove is idempotent.  In the state a remove of (tenant, channel) leaves,
\* a second remove of the pair, from whichever chat of the user, is a no-op
\* (no record to delete, no timer to cancel); and cancelling a name no timer is
\* armed under leaves the job queue as it is.
C16_RemoveIdempotent ==
    /\ [](\A chat_id \in TwoChats, ch \in AllChannels : get_jobs_by_name(jobs, job_name(chat_id, ch)) = {} => remove_job_if_exists(jobs, job_name(chat_id, ch)) = jobs)
    /\ [][\A u \in Users, chat_id \in TwoChats, data \in AllChannels : remove_channel_callback(u, chat_id, data, TRUE) => \A second_chat \in TwoChats : RemoveIsNoOp(jobs', user_data', u, second_chat, data)]_vars

\* a text that is no base interval > 0, and a text that is no jitter >= 0
InvalidBase(text) == ~IsNumber(text) \/ ~Less(0, text.value)

InvalidJitter(text) == ~IsNumber(text) \/ ~LessEq(0, text.value)

\* C17: a cadence step of the add dialog given an invalid cadence (no number, a
\* base that is not > 0, a jitter that is not >= 0) leaves the channels map and
\* the armed timers as they are.
C17_InvalidCadenceRejected == [][\A u \in Users, text \in CadenceTexts : ((InvalidBase(text) /\ add_channel_receive_schedule_base(u, text)) \/ (InvalidJitter(text) /\ \E chat_id \in PrivateChat : add_channel_receive_schedule_random(u, chat_id, text))) => (ChannelsOf(user_data'[u]) = ChannelsOf(user_data[u]) /\ jobs' = jobs)]_vars

\* the step is the delivered send_message of the execution c
Delivers(c) == \E sample \in Samples(c.job.data.random_seconds) : Send(c, "ok", sample)

\* C18: a successful fire cycle leaves user_data (the channels map with it)
\* unchanged at each of its steps, and its last step adds exactly one timer to
\* the job queue: the timer that fired, with the same name, channel, topic,
\* base, jitter and chat id, under a computed delay.
C18_SuccessfulCycleFrame ==
    /\ [][((\E j \in DOMAIN jobs : Fire(j)) \/ (\E c \in DOMAIN cycles, outcome \in GenOutcomes : Generate(c, outcome))) => user_data' = user_data]_vars
    /\ [][\A c \in DOMAIN cycles : Delivers(c) => (/\ user_data' = user_data
                                                   /\ BagCardinality(jobs') = BagCardinality(jobs) + 1
                                                   /\ \E d \in MinDelay..(MinDelay + c.job.data.base_seconds + c.job.data.random_seconds) :
                                                          /\ ValidDelay(d, c.job.data.base_seconds, c.job.data.random_seconds)
                                                          /\ jobs' = jobs (+) SetToBag({[c.job EXCEPT !.when = d]}))]_vars

\* C18 witness: an execution with generated text has delivered and its timer is
\* armed again with the data and chat id it fired with
C18_Witness == last.op = "rearmed" /\ last.gen = "text" /\ last.out = "ok" /\ \E j \in DOMAIN jobs : j.name = last.job.name /\ j.data = last.job.data /\ j.chat_id = last.job.chat_id /\ j.when >= MinDelay

\* the record of a channel, or nothing where the user has none
RecordOf(ud, u, channel_id) == IF Has(ChannelsOf(ud[u]), channel_id) THEN <<ChannelsOf(ud[u])[channel_id]>> ELSE <<>>

\* the armed timers of a (tenant, channel), with their multiplicities
TimerBag(q, u, channel_id) == [j \in TimersOf(q, u, channel_id) |-> q[j]]

\* records and timers of every channel other than channel_id are as before the step
OtherKeysUnchanged(u, channel_id) == \A other \in AllChannels \ {channel_id} : RecordOf(user_data', u, other) = RecordOf(user_data, u, other) /\ TimerBag(jobs', u, other) = TimerBag(jobs, u, other)

\* the step is a step of the execution c of post_to_channel
CycleStep(c) == (\E outcome \in GenOutcomes : Generate(c, outcome)) \/ DeliveryAttempt(c) \/ (\E delivered \in BOOLEAN : Notify(c, delivered))

\* C19: every step of a fire cycle of one job key leaves the records and the
\* armed timers of every other key as they were, and the step that ends a
\* cycle in permanent failure leaves its own key without record and without
\* timer, after one notification.
C19_CycleTouchesOwnKeyOnly ==
    /\ [][\A j \in DOMAIN jobs : Fire(j) => OtherKeysUnchanged(j.tenant, j.data.channel_id)]_vars
    /\ [][\A c \in DOMAIN cycles : CycleStep(c) => OtherKeysUnchanged(c.job.tenant, c.job.data.channel_id)]_vars
    /\ [][\A c \in DOMAIN cycles : (Permanent(c.out) /\ \E delivered \in BOOLEAN : Notify(c, delivered)) =>
            (/\ RecordOf(user_data', c.job.tenant, c.job.data.channel_id) = <<>>
             /\ NumTimers(jobs', c.job.tenant, c.job.data.channel_id) = 0
             /\ last'.notified = 1)]_vars

\* the frame half of C19 alone
C19_OtherKeysUntouched ==
    /\ [][\A j \in DOMAIN jobs : Fire(j) => OtherKeysUnchanged(j.tenant, j.data.channel_id)]_vars
    /\ [][\A c \in DOMAIN cycles : CycleStep(c) => OtherKeysUnchanged(c.job.tenant, c.job.data.channel_id)]_vars

\* copies of the job j in the queue q
Copies(q, j) == IF j \in DOMAIN q THEN q[j] ELSE 0

\* C20: after a step that creates or edits the schedule of a (tenant, channel)
\* every armed timer of that key waits the 10-second warm-up (no timer of the
\* key keeps an earlier pending wait), and a step that arms a timer with any
\* other delay is the delivered send of a fire cycle.
C20_WarmUpOnEveryUpsert ==
    /\ [][\A u \in Users, ch \in AllChannels : Upserts(u, ch) => \A j \in TimersOf(jobs', u, ch) : j.when = WarmUp]_vars
    /\ [][\A j \in DOMAIN jobs' : (j.when # WarmUp /\ Copies(jobs', j) > Copies(jobs, j)) => \E c \in DOMAIN cycles : Delivers(c)]_vars

\* C21: every armed timer is armed under the key of the (tenant, channel) whose
\* record it serves (the name built from the chat id of the update equals the
\* name built from the id of the user-data document that holds the record), and
\* a remove or an edit of a record therefore finds every timer armed for it: a
\* remove leaves none armed, an edit leaves exactly the one it arms.
C21_OneKeyOnEveryPath ==
    /\ [](\A j \in DOMAIN jobs : j.name = job_name(j.tenant, j.data.channel_id))
    /\ [][\A u \in Users, chat_id \in TwoChats, ch \in AllChannels : (HasRecord(u, ch) /\ remove_channel_callback(u, chat_id, ch, TRUE)) => NumTimers(jobs', u, ch) = 0]_vars
    /\ [][\A u \in Users, chat_id \in TwoChats, new_topic \in Topics, ch \in AllChannels :
            (HasRecord(u, ch) /\ Has(user_data[u], "temp_channel_to_edit") /\ user_data[u]["temp_channel_to_edit"] = ch /\ edittopic_receive_topic(u, chat_id, new_topic))
                => NumTimers(jobs', u, ch) = 1]_vars

\* the channel names the add dialog has accepted from the user so far
AcceptedNames(u) == DOMAIN ChannelsOf(user_data[u]) \cup (IF Has(user_data[u], "temp_channel_name") THEN {user_data[u]["temp_channel_name"]} ELSE {})

\* the add dialog of u ends with a record and a timer for channel_id
AddsChannel(u, channel_id) ==
    \E chat_id \in PrivateChat, text \in NumberTexts : /\ IsNumber(text) /\ text.value >= 0
                                                       /\ AddComplete(user_data[u])
                                                       /\ user_data[u]["temp_channel_name"] = channel_id
                                                       /\ add_channel_receive_schedule_random(u, chat_id, text)

\* C22: two distinct (chat, channel) pairs of accepted channel names never get
\* the same job name, and the step that arms the timer of one channel leaves
\* the armed timers of every other channel of the tenant as they were.
C22_JobNameInjective ==
    /\ [](\A u \in Users : \A c1 \in AcceptedNames(u), c2 \in AcceptedNames(u), chat1 \in TwoChats, chat2 \in TwoChats :
            job_name(chat1, c1) = job_name(chat2, c2) => (chat1 = chat2 /\ c1 = c2))
    /\ [][\A u \in Users, ch \in {ChannelA, ChannelB, ChannelAtA} : AddsChannel(u, ch) =>
            \A other \in {ChannelA, ChannelB, ChannelAtA} \ {ch} : TimerBag(jobs', u, other) = TimerBag(jobs, u, other)]_vars

\* the arming half of C22 alone
C22_ArmingKeepsOtherTimers ==
    [][\A u \in Users, ch \in {ChannelA, ChannelB, ChannelAtA} : AddsChannel(u, ch) =>
            \A other \in {ChannelA, ChannelB, ChannelAtA} \ {ch} : TimerBag(jobs', u, other) = TimerBag(jobs, u, other)]_vars

\* the entry of a user in the mapping get_user_data returns, or nothing
EntryOf(st, user_id) == IF Has(get_user_data(st), user_id) THEN <<get_user_data(st)[user_id]>> ELSE <<>>

\* the entries of every user but user_id are the same in both stores
OthersKept(st, new_st, user_id) == \A other \in TenantIds \ {user_id} : EntryOf(new_st, other) = EntryOf(st, other)

\* C23: after update_user_data(u, d) with a non-empty d, get_user_data() has
\* the entry u equal to d, whatever was stored before, and the entries of all
\* other users as before; after update_user_data(u, {}) or drop_user_data(u)
\* it has no entry for u, and the other entries are as before.
C23_ReadAfterWrite ==
    /\ [][\A u \in TenantIds, d \in Documents \ {EmptyDict} : UpdateUserData(u, d) => (EntryOf(store', u) = <<d>> /\ OthersKept(store, store', u))]_vars
    /\ [][\A u \in TenantIds : (UpdateUserData(u, EmptyDict) \/ DropUserData(u)) => (EntryOf(store', u) = <<>> /\ OthersKept(store, store', u))]_vars

\* C23 witness: a user's document with a channel record was just written while
\* another user has a stored document as well
C23_Witness == last.op = "update_user_data" /\ EntryOf(store, last.user) # <<>> /\ ChannelsOf(get_user_data(store)[last.user]) # EmptyDict /\ \E other \in TenantIds \ {last.user} : EntryOf(store, other) # <<>>

====
